---- MODULE Spec2Model ----
(***************************************************************************)
(* Model of data::Array / data::ArrayImpl and the storage-policy family    *)
(* of src/Array.h.                                                         *)
(*                                                                         *)
(* The heap is a sequence of blocks; a handle is an index into it and      *)
(* NULL is 0.  A caller owns one source buffer (plain data, text, or an    *)
(* array of text handles with its strings), builds owning arrays from it   *)
(* with a storage policy, copies array objects (ArrayImpl declares no copy *)
(* constructor, so the implicit member-wise one exists), compares them,    *)
(* mutates or frees the source, and destroys the arrays.                   *)
(***************************************************************************)
EXTENDS Integers, Sequences, FiniteSets, TLC

VARIABLES
    heap,      \* Seq of blocks [kind, data, live, frees]
    arrays,    \* Seq of ArrayImpl objects
    caller,    \* the caller's source buffer [h, kind, given]
    acq,       \* what the last StoragePolicy::copy call did
    rel,       \* what the last StoragePolicy::destroy call did
    cmp,       \* the last operator== call and its result
    crashed    \* the process died on undefined behaviour

vars == <<heap, arrays, caller, acq, rel, cmp, crashed>>

\* Bounds of the model.
MaxArrays == 2      \* array objects ever constructed
MaxBlocks == 6      \* heap blocks ever allocated
SrcLen == 2         \* elements of the caller's source buffer

NULL == 0
Uninit == -1        \* an element new[] left uninitialised
SizeBytes == 8      \* sizeof(size_t)

Kinds == {"pod", "char", "ptr"}
Policies == {"CopyPolicy", "MovePolicy", "MoveStringPolicy", "ShallowCopyPolicy"}

(***************************************************************************)
(* size_t: SizeBytes little-endian bytes, arithmetic modulo 2^(8*SizeBytes)*)
(***************************************************************************)
RECURSIVE ToBytes(_, _)
ToBytes(n, k) ==
    IF k = 0 THEN <<>> ELSE <<n % 256>> \o ToBytes(n \div 256, k - 1)

SizeT(n) == ToBytes(n, SizeBytes)

\* 2^32 as a size_t
Pow32 == ToBytes(0, 4) \o <<1>> \o ToBytes(0, SizeBytes - 5)

IsSmall(s) == \A i \in 4..Len(s) : s[i] = 0

\* the value of a size_t below 2^24
ToNat(s) == s[1] + 256 * s[2] + 65536 * s[3]

RECURSIVE Conv(_, _, _, _)
Conv(a, b, k, i) ==
    IF i > k THEN 0
    ELSE (IF i <= Len(a) /\ k + 1 - i <= Len(b) THEN a[i] * b[k + 1 - i] ELSE 0)
         + Conv(a, b, k, i + 1)

RECURSIVE MulLimbs(_, _, _, _, _)
MulLimbs(a, b, k, n, carry) ==
    IF k > n THEN <<>>
    ELSE LET s == carry + Conv(a, b, k, 1)
         IN  <<s % 256>> \o MulLimbs(a, b, k + 1, n, s \div 256)

\* size *= x on size_t: the low SizeBytes bytes of the product
MulSize(a, b) == MulLimbs(a, b, 1, SizeBytes, 0)

RECURSIVE calculateSizeLoop(_, _, _)
calculateSizeLoop(dims, it, size) ==
    IF it > Len(dims) THEN size
    ELSE calculateSizeLoop(dims, it + 1, MulSize(size, dims[it]))

calculateSize(dims) == calculateSizeLoop(dims, 1, SizeT(1))

(***************************************************************************)
(* The heap: new[] and delete[]                                            *)
(***************************************************************************)
Block(kind, data) == [kind |-> kind, data |-> data, live |-> TRUE, frees |-> 0]

\* new T[n], elements given by data; the new handle is Len(h) + 1
New(h, kind, data) == Append(h, Block(kind, data))

\* delete [] p; deleting a null pointer does nothing
Delete(h, p) ==
    IF p = NULL THEN h
    ELSE [h EXCEPT ![p].live = FALSE, ![p].frees = @ + 1]

HasTerm(data) == \E i \in 1..Len(data) : data[i] = 0

\* number of chars strcpy moves out of data: strlen + 1
TermPos(data) ==
    IF HasTerm(data)
    THEN CHOOSE i \in 1..Len(data) :
             data[i] = 0 /\ \A j \in 1..(i - 1) : data[j] # 0
    ELSE Len(data) + 1

Take(data, n) == IF n = 0 THEN <<>> ELSE SubSeq(data, 1, n)

RECURSIVE Fill(_, _)
Fill(n, v) == IF n <= 0 THEN <<>> ELSE <<v>> \o Fill(n - 1, v)

(***************************************************************************)
(* Storage policies.  copy returns what the call did: the heap after it,   *)
(* the handle returned, how many source elements it read, how many         *)
(* elements it wrote to the block it allocated (of alloc elements),        *)
(* whether it dereferenced the source handle, and whether it ran into      *)
(* undefined behaviour.  destroy returns the heap after it, the reads of   *)
(* the handle array and the deletes it made, in order.                     *)
(***************************************************************************)
CopyResult(h, ptr, nread, nwritten, alloc, deref, fault) ==
    [heap |-> h, ptr |-> ptr, nread |-> nread, nwritten |-> nwritten,
     alloc |-> alloc, deref |-> deref, fault |-> fault]

\* CopyPolicy<T>::copy: new T[size], memcpy of size elements
CopyPolicy_copy(h, ptr, size) ==
    LET data == IF size = 0 THEN <<>>
                ELSE IF ptr = NULL THEN Fill(size, Uninit)
                ELSE [i \in 1..size |->
                         IF i <= Len(h[ptr].data) THEN h[ptr].data[i] ELSE Uninit]
    IN  CopyResult(New(h, "pod", data), Len(h) + 1, size, size, size,
                   size > 0,
                   size > 0 /\ (ptr = NULL \/ size > Len(h[ptr].data)))

\* CopyPolicy<char>::copy: new char[size + 1], strcpy up to the terminator
CopyPolicyChar_copy(h, ptr, size) ==
    IF ptr = NULL
    THEN CopyResult(New(h, "char", Fill(size + 1, Uninit)), Len(h) + 1,
                    0, 0, size + 1, TRUE, TRUE)
    ELSE LET src == h[ptr].data
             t == TermPos(src)
             data == [i \in 1..(size + 1) |->
                         IF i <= t /\ i <= Len(src) THEN src[i] ELSE Uninit]
         IN  CopyResult(New(h, "char", data), Len(h) + 1, t, t, size + 1,
                        TRUE, t > size + 1 \/ t > Len(src))

\* one iteration per element: new char[strlen(ptr[i]) + 1], strcpy
RECURSIVE CopyStrings(_, _, _, _)
CopyStrings(h, ptr, i, size) ==
    IF i > size THEN h
    ELSE LET s == h[ptr].data[i]
         IN  CopyStrings(New(h, "char", Take(h[s].data, TermPos(h[s].data))),
                         ptr, i + 1, size)

\* CopyPolicy<char *>::copy: new char *[size], then a clone of every string
CopyPolicyStr_copy(h, ptr, size) ==
    LET arr == Len(h) + 1
        handles == [i \in 1..size |-> arr + i]
        h1 == New(h, "ptr", IF size = 0 THEN <<>> ELSE handles)
    IN  CopyResult(CopyStrings(h1, ptr, 1, size), arr, size, size, size,
                   size > 0, FALSE)

\* MovePolicy<T>::copy, MovePolicy<char>::copy, MovePolicy<char *>::copy
MovePolicy_copy(h, ptr, size) ==
    CopyResult(h, ptr, 0, 0, 0, FALSE, FALSE)

\* MoveStringPolicy<T>::copy
MoveStringPolicy_copy(h, ptr, size) ==
    CopyResult(h, ptr, 0, 0, 0, FALSE, FALSE)

\* ShallowCopyPolicy<T>::copy
ShallowCopyPolicy_copy(h, ptr, size) ==
    CopyResult(h, ptr, 0, 0, 0, FALSE, FALSE)

DelEvent(h, p) == [op |-> "delete", h |-> p, live |-> h[p].live]
ReadEvent(h, p) == [op |-> "read", h |-> p, live |-> h[p].live]

DestroyResult(h, ev) == [heap |-> h, ev |-> ev]

\* if (NULL != ptr) delete [] ptr
DeleteArray(h, ptr, ev) ==
    IF ptr = NULL THEN DestroyResult(h, ev)
    ELSE DestroyResult(Delete(h, ptr), Append(ev, DelEvent(h, ptr)))

\* CopyPolicy<T>::destroy and CopyPolicy<char>::destroy
CopyPolicy_destroy(h, ptr, size) == DeleteArray(h, ptr, <<>>)

\* for (i < size) delete [] ptr[i]
RECURSIVE DeleteStrings(_, _, _, _, _)
DeleteStrings(h, ptr, i, size, ev) ==
    IF i > size THEN DestroyResult(h, ev)
    ELSE LET s == h[ptr].data[i]
             ev1 == Append(ev, ReadEvent(h, ptr))
         IN  DeleteStrings(Delete(h, s), ptr, i + 1, size,
                           IF s = NULL THEN ev1 ELSE Append(ev1, DelEvent(h, s)))

\* CopyPolicy<char *>::destroy: every string, then the handle array
CopyPolicyStr_destroy(h, ptr, size) ==
    IF ptr = NULL THEN DestroyResult(h, <<>>)
    ELSE LET r == DeleteStrings(h, ptr, 1, size, <<>>)
         IN  DeleteArray(r.heap, ptr, r.ev)

\* MovePolicy<T>::destroy and MovePolicy<char>::destroy
MovePolicy_destroy(h, ptr, size) == DeleteArray(h, ptr, <<>>)

\* a MovePolicy<char *>::destroy that forgets the strings
MovePolicyStr_destroy_leak(h, ptr, size) == DeleteArray(h, ptr, <<>>)

\* MovePolicy<char *>::destroy: every string, then the handle array
MovePolicyStr_destroy(h, ptr, size) ==
    IF ptr = NULL THEN DestroyResult(h, <<>>)
    ELSE LET r == DeleteStrings(h, ptr, 1, size, <<>>)
         IN  DeleteArray(r.heap, ptr, r.ev)

\* MoveStringPolicy<T>::destroy: the handle block alone, whatever T is
MoveStringPolicy_destroy(h, ptr, size) == DeleteArray(h, ptr, <<>>)

\* a ShallowCopyPolicy<T>::destroy that deletes like the owning policies
ShallowCopyPolicy_destroy_owning(h, ptr, size) == DeleteArray(h, ptr, <<>>)

\* ShallowCopyPolicy<T>::destroy: empty body
ShallowCopyPolicy_destroy(h, ptr, size) == DestroyResult(h, <<>>)

\* StoragePolicy<T>::copy as the compiler selects the specialisation
StoragePolicy_copy(policy, kind, h, ptr, size) ==
    CASE policy = "CopyPolicy" /\ kind = "pod" -> CopyPolicy_copy(h, ptr, size)
      [] policy = "CopyPolicy" /\ kind = "char" -> CopyPolicyChar_copy(h, ptr, size)
      [] policy = "CopyPolicy" /\ kind = "ptr" -> CopyPolicyStr_copy(h, ptr, size)
      [] policy = "MovePolicy" -> MovePolicy_copy(h, ptr, size)
      [] policy = "MoveStringPolicy" -> MoveStringPolicy_copy(h, ptr, size)
      [] policy = "ShallowCopyPolicy" -> ShallowCopyPolicy_copy(h, ptr, size)

\* StoragePolicy<T>::destroy as the compiler selects the specialisation
StoragePolicy_destroy(policy, kind, h, ptr, size) ==
    CASE policy = "CopyPolicy" /\ kind = "ptr" -> CopyPolicyStr_destroy(h, ptr, size)
      [] policy = "CopyPolicy" /\ kind # "ptr" -> CopyPolicy_destroy(h, ptr, size)
      [] policy = "MovePolicy" /\ kind = "ptr" -> MovePolicyStr_destroy(h, ptr, size)
      [] policy = "MovePolicy" /\ kind # "ptr" -> MovePolicy_destroy(h, ptr, size)
      [] policy = "MoveStringPolicy" -> MoveStringPolicy_destroy(h, ptr, size)
      [] policy = "ShallowCopyPolicy" -> ShallowCopyPolicy_destroy(h, ptr, size)

\* an access the language leaves undefined happened during a destroy
DestroyFault(ev) == \E k \in 1..Len(ev) : ~ev[k].live

\* dimension vectors the caller asks for: a scalar, one axis, two axes of the
\* same count in either order, an empty axis, and axes whose product
\* exceeds size_t
DimsMenu ==
    {<<>>, <<SizeT(SrcLen)>>,
     <<SizeT(1), SizeT(SrcLen)>>, <<SizeT(SrcLen), SizeT(1)>>,
     <<SizeT(SrcLen), SizeT(0)>>, <<Pow32, Pow32>>}

\* the vectors of the menu that decide an array's lifetime: count 1, count
\* SrcLen, count 0
LifeMenu == {<<>>, <<SizeT(SrcLen)>>, <<SizeT(SrcLen), SizeT(0)>>}

\* calculateSize on the caller's vectors, evaluated once
SizeOf == [dims \in DimsMenu |-> calculateSize(dims)]

(***************************************************************************)
(* Array<T> and ArrayImpl<T, StoragePolicy>                                *)
(***************************************************************************)
\* Array<T>::Array(ptr, dims): ptr_(ptr), dims_(dims), size_(calculateSize(dims))
ArrayCtor(ptr, dims) ==
    [ptr_ |-> ptr, dims_ |-> dims, size_ |-> SizeOf[dims]]

\* ptr_[i] can be read: the block is allocated and the element initialised
Readable(h, ptr, i) ==
    /\ ptr # NULL
    /\ h[ptr].live
    /\ i <= Len(h[ptr].data)
    /\ h[ptr].data[i] # Uninit

\* the loop of Array<T>::operator==, from element i on
RECURSIVE EqLoop(_, _, _, _, _)
EqLoop(h, pa, pb, i, size) ==
    IF i > size THEN "true"
    ELSE IF ~(Readable(h, pa, i) /\ Readable(h, pb, i)) THEN "undef"
    ELSE IF h[pa].data[i] # h[pb].data[i] THEN "false"
    ELSE EqLoop(h, pa, pb, i + 1, size)

\* an operator== that skips the comparison of the dimension vectors
operatorEq_noDims(h, a, b) == EqLoop(h, a.ptr_, b.ptr_, 1, ToNat(a.size_))

\* Array<T>::operator==
operatorEq(h, a, b) ==
    IF a.dims_ # b.dims_ THEN "false"
    ELSE EqLoop(h, a.ptr_, b.ptr_, 1, ToNat(a.size_))

(***************************************************************************)
(* The caller's side                                                       *)
(***************************************************************************)
RECURSIVE InitStrings(_, _)
InitStrings(h, i) ==
    IF i > SrcLen THEN h
    ELSE InitStrings(New(h, "char", Fill(i, 1) \o <<0>>), i + 1)

InitHeap(kind) ==
    CASE kind = "pod" -> New(<<>>, "pod", Fill(SrcLen, 1))
      [] kind = "char" -> New(<<>>, "char", Fill(SrcLen, 1) \o <<0>>)
      [] kind = "ptr" -> New(InitStrings(<<>>, 1), "ptr", [i \in 1..SrcLen |-> i])

NoAcq ==
    [policy |-> "none", kind |-> "none", src |-> NULL, count |-> SizeT(0),
     ptr |-> NULL, nread |-> 0, nwritten |-> 0, alloc |-> 0,
     deref |-> FALSE, fault |-> FALSE]

NoRel ==
    [policy |-> "none", kind |-> "none", ptr |-> NULL, dims |-> <<>>,
     count |-> SizeT(0), ev |-> <<>>]

\* an array object after its destructor ran
Dead ==
    [policy |-> "none", kind |-> "none", ptr_ |-> NULL, dims_ |-> <<>>,
     size_ |-> SizeT(0), alive |-> FALSE, copied |-> FALSE, snap |-> <<>>]

NoCmp == [a |-> 0, b |-> 0, res |-> FALSE, undef |-> FALSE]

Init ==
    /\ caller \in {[h |-> IF k = "ptr" THEN SrcLen + 1 ELSE 1, kind |-> k,
                    given |-> FALSE] : k \in Kinds}
    /\ heap = InitHeap(caller.kind)
    /\ arrays = <<>>
    /\ acq = NoAcq
    /\ rel = NoRel
    /\ cmp = NoCmp
    /\ crashed = FALSE

\* the contents of a buffer of n elements behind handle p
RECURSIVE Strings(_, _, _, _)
Strings(h, p, i, n) ==
    IF i > n THEN <<>>
    ELSE <<h[h[p].data[i]].data>> \o Strings(h, p, i + 1, n)

Contents(h, kind, p, n) ==
    IF p = NULL \/ (n = 0 /\ kind # "char") THEN <<>>
    ELSE IF kind = "ptr" THEN Strings(h, p, 1, n)
    ELSE IF kind = "char" THEN Take(h[p].data, TermPos(h[p].data))
    ELSE Take(h[p].data, n)

\* heap blocks a copy allocates
BlocksNeeded(policy, kind, n) ==
    IF policy # "CopyPolicy" THEN 0
    ELSE IF kind = "ptr" THEN n + 1 ELSE 1

\* ArrayImpl<T, StoragePolicy>::ArrayImpl(ptr, dims)
ArrayImplCtor(policy, kind, h, ptr, dims) ==
    LET size == SizeOf[dims]
        r == StoragePolicy_copy(policy, kind, h, ptr, ToNat(size))
    IN  [obj |-> ArrayCtor(r.ptr, dims), call |-> r, count |-> size]

\* The caller builds an owning array from its buffer, or from NULL with
\* dimensions of count 0.  The caller's obligations: a non-null handle refers
\* to an allocated block of at least count elements, and a buffer given to a
\* transfer policy is not given to one again.
Construct(policy, src, dims) ==
    /\ ~crashed
    /\ Len(arrays) < MaxArrays
    /\ LET size == SizeOf[dims]
       IN
        /\ IsSmall(size)
        /\ src = NULL => ToNat(size) = 0
        /\ src # NULL => /\ heap[src].live
                         /\ ToNat(size) <= Len(heap[src].data)
                         /\ policy \in {"MovePolicy", "MoveStringPolicy"}
                                => ~caller.given
        /\ Len(heap) + BlocksNeeded(policy, caller.kind, ToNat(size)) <= MaxBlocks
    /\ LET c == ArrayImplCtor(policy, caller.kind, heap, src, dims)
       IN  /\ heap' = c.call.heap
           /\ arrays' = Append(arrays,
                  [policy |-> policy, kind |-> caller.kind,
                   ptr_ |-> c.obj.ptr_, dims_ |-> c.obj.dims_, size_ |-> c.obj.size_,
                   alive |-> TRUE, copied |-> FALSE,
                   snap |-> IF policy = "CopyPolicy"
                            THEN Contents(heap, caller.kind, src, ToNat(c.count))
                            ELSE <<>>])
           /\ acq' = [policy |-> policy, kind |-> caller.kind, src |-> src,
                      count |-> c.count, ptr |-> c.call.ptr,
                      nread |-> c.call.nread, nwritten |-> c.call.nwritten,
                      alloc |-> c.call.alloc, deref |-> c.call.deref,
                      fault |-> c.call.fault]
           /\ crashed' \in (IF c.call.fault THEN BOOLEAN ELSE {FALSE})
    /\ caller' = [caller EXCEPT !.given =
                     @ \/ (src # NULL /\ policy \in {"MovePolicy", "MoveStringPolicy"})]
    /\ rel' = NoRel
    /\ cmp' = NoCmp

\* The implicit copy constructor of ArrayImpl: member-wise, no policy call
CopyArray(a) ==
    /\ ~crashed
    /\ Len(arrays) < MaxArrays
    /\ arrays[a].alive
    /\ arrays' = Append(arrays, [arrays[a] EXCEPT !.copied = TRUE])
    /\ acq' = NoAcq
    /\ rel' = NoRel
    /\ cmp' = NoCmp
    /\ UNCHANGED <<heap, caller, crashed>>

\* ArrayImpl<T, StoragePolicy>::~ArrayImpl()
Destroy(a) ==
    /\ ~crashed
    /\ arrays[a].alive
    /\ LET r == StoragePolicy_destroy(arrays[a].policy, arrays[a].kind, heap,
                                      arrays[a].ptr_, ToNat(arrays[a].size_))
       IN  /\ heap' = r.heap
           /\ rel' = [policy |-> arrays[a].policy, kind |-> arrays[a].kind,
                      ptr |-> arrays[a].ptr_, dims |-> arrays[a].dims_,
                      count |-> arrays[a].size_, ev |-> r.ev]
           /\ crashed' \in (IF DestroyFault(r.ev) THEN BOOLEAN ELSE {FALSE})
    /\ arrays' = [arrays EXCEPT ![a] = Dead]
    /\ acq' = NoAcq
    /\ cmp' = NoCmp
    /\ UNCHANGED caller

\* a == b on two array objects of the same element type
Compare(a, b) ==
    /\ ~crashed
    /\ arrays[a].alive /\ arrays[b].alive
    /\ LET r == operatorEq(heap, arrays[a], arrays[b])
       IN  /\ cmp' \in {[a |-> a, b |-> b, res |-> x, undef |-> r = "undef"] :
                          x \in (IF r = "undef" THEN BOOLEAN ELSE {r = "true"})}
           /\ crashed' \in (IF r = "undef" THEN BOOLEAN ELSE {FALSE})
    /\ acq' = NoAcq
    /\ rel' = NoRel
    /\ UNCHANGED <<heap, arrays, caller>>

\* The caller overwrites the first element of the buffer it still owns (for
\* text handles, the first char of string s) with v.
WriteSource(s, v) ==
    /\ ~crashed
    /\ ~caller.given
    /\ heap[caller.h].live
    /\ LET b == IF caller.kind = "ptr" THEN heap[caller.h].data[s] ELSE caller.h
       IN  /\ caller.kind # "ptr" => s = 1
           /\ v # 0 \/ caller.kind = "char"
           /\ v # 2 \/ caller.kind # "char"
           /\ heap[b].data[1] # v
           /\ heap' = [heap EXCEPT ![b].data[1] = v]
    /\ acq' = NoAcq
    /\ rel' = NoRel
    /\ cmp' = NoCmp
    /\ UNCHANGED <<arrays, caller, crashed>>

RECURSIVE FreeStrings(_, _, _)
FreeStrings(h, p, i) ==
    IF i > Len(h[p].data) THEN h
    ELSE FreeStrings(Delete(h, h[p].data[i]), p, i + 1)

\* The caller frees the buffer it still owns (each string of a text-handle
\* array, then the array).
FreeSource ==
    /\ ~crashed
    /\ ~caller.given
    /\ heap[caller.h].live
    /\ heap' = Delete(IF caller.kind = "ptr" THEN FreeStrings(heap, caller.h, 1)
                                               ELSE heap,
                      caller.h)
    /\ acq' = NoAcq
    /\ rel' = NoRel
    /\ cmp' = NoCmp
    /\ UNCHANGED <<arrays, caller, crashed>>

\* Lifetimes: arrays of one axis, of no axis and of an empty axis, under every
\* policy; array objects are built, copied and destroyed, the source is
\* written and freed.
Next ==
    \/ \E policy \in Policies, src \in {NULL, caller.h}, dims \in LifeMenu :
           Construct(policy, src, dims)
    \/ \E a \in 1..Len(arrays) : CopyArray(a)
    \/ \E a \in 1..Len(arrays) : Destroy(a)
    \/ \E s \in 1..SrcLen, v \in 0..2 : WriteSource(s, v)
    \/ FreeSource

Spec == Init /\ [][Next]_vars

\* Shapes: arrays of every shape of the menu, copied from or aliasing the
\* source, are built, compared and destroyed, the source is written and freed.
ShapeNext ==
    \/ \E policy \in {"CopyPolicy", "ShallowCopyPolicy"}, src \in {NULL, caller.h},
          dims \in DimsMenu :
           Construct(policy, src, dims)
    \/ \E a \in 1..Len(arrays) : Destroy(a)
    \/ \E a \in 1..Len(arrays), b \in 1..Len(arrays) : a < b /\ Compare(a, b)
    \/ \E s \in 1..SrcLen, v \in 0..2 : WriteSource(s, v)
    \/ FreeSource

SpecShape == Init /\ [][ShapeNext]_vars

(***************************************************************************)
(* Properties                                                              *)
(***************************************************************************)
Owning == {"CopyPolicy", "MovePolicy", "MoveStringPolicy"}
Transfer == {"MovePolicy", "MoveStringPolicy"}

\* the exact product of the entries of a dimension vector, without width
RECURSIVE Norm(_)
Norm(s) == IF s = <<>> \/ s[Len(s)] # 0 THEN s ELSE Norm(SubSeq(s, 1, Len(s) - 1))

RECURSIVE Product(_, _)
Product(dims, i) ==
    IF i > Len(dims) THEN <<1>>
    ELSE LET rest == Product(dims, i + 1)
         IN  MulLimbs(dims[i], rest, 1, Len(dims[i]) + Len(rest), 0)

ProductOf == [dims \in DimsMenu |-> Norm(Product(dims, 1))]

\* C1: under the deep-copy and transfer policies no backing block is released
\* twice: destroy runs at most once on each handle acquired at construction,
\* whatever constructions, copies of array objects and destructions happen.
C1_ReleasedOnce ==
    \A h \in 1..Len(heap) : heap[h].frees <= 1

\* C2: no two live owning arrays under the deep-copy or transfer policies hold
\* the same backing handle.
C2_ExclusiveHandle ==
    \A a, b \in 1..Len(arrays) :
        (/\ a # b
         /\ arrays[a].alive /\ arrays[b].alive
         /\ arrays[a].policy \in Owning /\ arrays[b].policy \in Owning
         /\ arrays[a].ptr_ # NULL)
        => arrays[a].ptr_ # arrays[b].ptr_

\* array a can be read: its block is allocated, its text terminated inside
\* the block, the strings of its text handles allocated
Defined(a) ==
    LET p == a.ptr_
    IN  p # NULL =>
            /\ heap[p].live
            /\ a.kind = "char" => HasTerm(heap[p].data)
            /\ a.kind = "ptr" =>
                   \A i \in 1..ToNat(a.size_) : heap[heap[p].data[i]].live

\* what a reader of array a observes: its elements (text up to the terminator,
\* text handles as the strings they refer to)
Observed(a) ==
    LET p == a.ptr_
        n == ToNat(a.size_)
    IN  IF p = NULL THEN <<>>
        ELSE IF a.kind = "char" THEN Take(heap[p].data, TermPos(heap[p].data))
        ELSE IF a.kind = "ptr" THEN Strings(heap, p, 1, n)
        ELSE Take(heap[p].data, n)

SourceHandles ==
    {caller.h} \cup (IF caller.kind = "ptr"
                     THEN {heap[caller.h].data[i] : i \in 1..Len(heap[caller.h].data)}
                     ELSE {})

\* C3: an array constructed from S under the deep-copy policy keeps showing
\* S's contents as of construction, whatever happens to S later, and shares no
\* handle with S.
C3_DeepCopyIndependent ==
    \A a \in 1..Len(arrays) :
        (arrays[a].alive /\ arrays[a].policy = "CopyPolicy" /\ ~arrays[a].copied)
        => /\ Defined(arrays[a])
           /\ Observed(arrays[a]) = arrays[a].snap
           /\ arrays[a].ptr_ \notin SourceHandles
           /\ arrays[a].kind = "ptr" =>
                  \A i \in 1..ToNat(arrays[a].size_) :
                      heap[arrays[a].ptr_].data[i] \notin SourceHandles

\* a step that constructs or destroys an array under the alias policy
AliasStep ==
    \/ \E a \in 1..Len(arrays) :
           /\ arrays[a].alive /\ arrays[a].policy = "ShallowCopyPolicy"
           /\ ~arrays'[a].alive
    \/ /\ Len(arrays') = Len(arrays) + 1
       /\ arrays'[Len(arrays')].policy = "ShallowCopyPolicy"

\* C4: constructing and destroying an array under the alias policy frees
\* nothing and writes nothing: every block is as allocated, and holds what it
\* held, as before the step.
C4_AliasFrame == [][AliasStep => heap' = heap]_vars

\* an alias array over the source was just destroyed and the source is intact
C4_Witness ==
    /\ rel.policy = "ShallowCopyPolicy"
    /\ rel.ptr # NULL
    /\ heap[rel.ptr].live
    /\ heap[rel.ptr].frees = 0

\* the strings a destroyed text-handle array referred to
RelStrings == {heap[rel.ptr].data[i] : i \in 1..ToNat(rel.count)}

AcquiredBySource ==
    acq.policy \in Transfer =>
        acq.ptr = acq.src /\ arrays[Len(arrays)].ptr_ = acq.src

\* C5 as stated: under every transfer policy the array holds the source handle
\* itself, and its destruction frees the handle block and, for text handles,
\* every referenced string.
C5_TransferFreesAll ==
    /\ AcquiredBySource
    /\ (rel.policy \in Transfer /\ rel.ptr # NULL) =>
           /\ ~heap[rel.ptr].live
           /\ rel.kind = "ptr" => \A s \in RelStrings : ~heap[s].live

\* C5 amended: under MovePolicy and MoveStringPolicy the array holds the
\* source handle itself and its destruction frees the handle block; under
\* MovePolicy it also frees every referenced string of a text-handle array,
\* under MoveStringPolicy it deletes the handle block and nothing else.
C5_TransferFrees ==
    /\ AcquiredBySource
    /\ (rel.policy \in Transfer /\ rel.ptr # NULL) =>
           /\ ~heap[rel.ptr].live
           /\ (rel.policy = "MovePolicy" /\ rel.kind = "ptr") =>
                  \A s \in RelStrings : ~heap[s].live
           /\ rel.policy = "MoveStringPolicy" =>
                  Len(rel.ev) = 1 /\ rel.ev[1].h = rel.ptr

\* a text-handle array of SrcLen strings was destroyed under MoveStringPolicy:
\* the handle block is freed, the strings are still allocated
C5_Witness ==
    /\ rel.policy = "MoveStringPolicy"
    /\ rel.kind = "ptr"
    /\ rel.ptr = caller.h
    /\ ToNat(rel.count) = SrcLen
    /\ ~heap[rel.ptr].live
    /\ \A s \in RelStrings : heap[s].live

\* the elements operator== would compare are all there to be read
Comparable(a, b) ==
    \A i \in 1..ToNat(a.size_) :
        Readable(heap, a.ptr_, i) /\ Readable(heap, b.ptr_, i)

\* C6: a == b is false whenever the dimension vectors differ; with equal
\* dimension vectors (and elements that can be read) it is true exactly when
\* a[i] = b[i] for every i below the element count; it never fails.
C6_Equality ==
    cmp.a # 0 =>
        LET a == arrays[cmp.a]
            b == arrays[cmp.b]
        IN  /\ a.dims_ # b.dims_ => (~cmp.res /\ ~cmp.undef)
            /\ (a.dims_ = b.dims_ /\ Comparable(a, b)) =>
                   /\ ~cmp.undef
                   /\ cmp.res <=> \A i \in 1..ToNat(a.size_) :
                                      heap[a.ptr_].data[i] = heap[b.ptr_].data[i]

\* two arrays of the same count and elements but different shape compare unequal
C6_Witness ==
    /\ cmp.a # 0
    /\ arrays[cmp.a].dims_ # arrays[cmp.b].dims_
    /\ arrays[cmp.a].size_ = arrays[cmp.b].size_
    /\ ToNat(arrays[cmp.a].size_) = SrcLen
    /\ Comparable(arrays[cmp.a], arrays[cmp.b])
    /\ \A i \in 1..SrcLen :
           heap[arrays[cmp.a].ptr_].data[i] = heap[arrays[cmp.b].ptr_].data[i]
    /\ ~cmp.res

\* C7: for every policy and specialisation, copy with a null source and count
\* 0 completes without dereferencing the null handle, and destroy of a null
\* handle does nothing.
C7_NullTolerated ==
    /\ (acq.policy # "none" /\ acq.src = NULL /\ ToNat(acq.count) = 0) =>
           ~acq.deref /\ ~acq.fault
    /\ (rel.policy # "none" /\ rel.ptr = NULL) => rel.ev = <<>>

\* C8: the deep copy reads no source element beyond the count it was given and
\* writes nothing beyond the block it allocated; for text it moves exactly
\* count chars and the terminator into the block of count + 1.
C8_CopyWithinBounds ==
    acq.policy = "CopyPolicy" =>
        /\ acq.nwritten <= acq.alloc
        /\ acq.kind = "char" =>
               /\ acq.nread = ToNat(acq.count) + 1
               /\ acq.nwritten = ToNat(acq.count) + 1
        /\ acq.kind # "char" => acq.nread <= ToNat(acq.count)

\* C9: calculateSize(d) is the product of d's entries; every array's stored
\* count is that product, and so is the count handed to the policy's copy and
\* destroy.
C9_CountIsProduct ==
    /\ \A a \in 1..Len(arrays) :
           arrays[a].alive => Norm(arrays[a].size_) = ProductOf[arrays[a].dims_]
    /\ acq.policy # "none" => Norm(acq.count) = ProductOf[arrays[Len(arrays)].dims_]
    /\ rel.policy # "none" => Norm(rel.count) = ProductOf[rel.dims]

\* C10: the destruction of a text-handle array under the deep-copy or transfer
\* policy reads the handle array only while it is allocated, deletes each of
\* the count strings once, each of them allocated until then, and deletes the
\* handle array last.
C10_StringsThenArray ==
    (rel.kind = "ptr" /\ rel.policy \in {"CopyPolicy", "MovePolicy"} /\ rel.ptr # NULL)
    => LET ev == rel.ev
           n == ToNat(rel.count)
       IN  /\ Len(ev) = 2 * n + 1
           /\ \A k \in 1..Len(ev) : ev[k].live
           /\ \A k \in 1..n : /\ ev[2 * k - 1].op = "read"
                              /\ ev[2 * k].op = "delete"
                              /\ ev[2 * k].h # rel.ptr
                              /\ heap[ev[2 * k].h].frees = 1
           /\ ev[Len(ev)].op = "delete" /\ ev[Len(ev)].h = rel.ptr

====
